---- MODULE Spec2Model ----
(***************************************************************************)
(* httpjail: a rolling-window HTTP rate limiter (src/httpjail.go).         *)
(*                                                                         *)
(* The model has the Jail (its configuration and its Sentences map), the   *)
(* DefaultVisitorLog (its visits map and the package mutex logVisitMux)    *)
(* and the handler returned by Jail.Middleware.                            *)
(*                                                                         *)
(* Two specifications are given.                                           *)
(*   Spec      requests are handled one at a time; a whole handler is one  *)
(*             action and reads one clock value (time.Now() returns the    *)
(*             same instant at each of its calls inside one handler).      *)
(*   SpecConc  handlers run as goroutines that interleave at every access  *)
(*             to the shared maps; the clock may advance between any two   *)
(*             steps of a handler.                                         *)
(*                                                                         *)
(* Time is an integer number of clock units; time.Time.After is >, Equal   *)
(* is =, Add is +.                                                         *)
(***************************************************************************)
EXTENDS Integers, Sequences, FiniteSets

(***************************************************************************)
(* Bounds of the model.                                                    *)
(***************************************************************************)
MaxTime == 2
MaxRequests == 3
MaxAllowed == 2
MaxWindow == 2
MaxCooloff == 3
\* SpecConc: the requests in all and the clock readings.
MaxConcRequests == 2
MaxConcTime == 1
\* SpecLedger: the calls made on the visitor log.
MaxCalls == 4

(***************************************************************************)
(* Inputs.  A request carries the transport's peer address (RemoteAddr)    *)
(* and the value of its X-Forwarded-For header; Header.Get returns "" for  *)
(* an absent header.  One header value equals a peer address, so that the  *)
(* two identity sources can collide.                                       *)
(***************************************************************************)
Peers == {"a", "b"}
Headers == {"", "a"}
Ids == Peers \cup Headers
Procs == {1, 2}

VARIABLES
    isProxied,        \* Jail.isProxied
    AllowedRequests,  \* Jail.AllowedRequests
    Window,           \* Jail.Window
    NoRespond,        \* Jail.NoRespond
    Cooloff,          \* Jail.Cooloff
    Sentences,        \* Jail.Sentences: identifier -> release time (partial map)
    visits,           \* DefaultVisitorLog.visits: identifier -> sequence of times
    now,              \* the wall clock read by time.Now()
    logVisitMux,      \* the package mutex: 0 when free, else the holder
    pc,               \* SpecConc: where each handler goroutine stands
    loc,              \* SpecConc: each handler's local variables
    crashed,          \* SpecConc: "" or the map on which the runtime detected
                      \* concurrent access and threw its fatal error
    handled,          \* history: number of requests that entered the handler
    recorded,         \* history: per identifier, every visit ever logged
    admitted,         \* history: per identifier, the visit times of admitted requests
    cutoff,           \* history: per identifier, the largest `since` CountVisits wrote back with
    peersSeen,        \* history (Spec): per identifier, the peer addresses filed under it
    last,             \* history (Spec): the most recent request handled, and its outcome
    interleaved,      \* history: a handler has taken a step while another was in flight
    drifted           \* history: the clock has advanced while a handler was in flight

config == <<isProxied, AllowedRequests, Window, NoRespond, Cooloff>>
shared == <<Sentences, visits, logVisitMux>>
procs == <<pc, loc, crashed, interleaved, drifted>>
history == <<handled, recorded, admitted, cutoff, peersSeen, last>>
vars == <<config, shared, now, procs, history>>

NoEntry == 0 - 1
NoCutoff == 0 - (MaxWindow + 1)
NoLast == [kind |-> "none"]
Idle == [id |-> "", buf |-> <<>>, t |-> 0, since |-> 0, st |-> 0]

(***************************************************************************)
(* The program's pure parts.                                               *)
(***************************************************************************)

\* Variants of the definitions below, each with one plausible slip.
ResolveId_PeerOnly(proxied, peer, hdr) == peer
ResolveId_Fallback(proxied, peer, hdr) ==
    IF proxied /\ hdr # "" THEN hdr ELSE peer
Fresh_Strict(visit, since) == visit > since
Fresh_Before(visit, since) == visit < since \/ visit = since
isSentenced_NonStrict(S, id, t) == id \in DOMAIN S /\ S[id] >= t
isSentenced_Forever(S, id, t) == id \in DOMAIN S
sentence_KeepFirst(S, id, t, cooloff) ==
    IF id \in DOMAIN S THEN S
    ELSE [k \in DOMAIN S \cup {id} |-> IF k = id THEN t + cooloff ELSE S[k]]
sentence_WrongKey(S, id, t, cooloff) ==
    [k \in DOMAIN S \cup {""} |-> IF k = "" THEN t + cooloff ELSE S[k]]
sentence_KeepActive(S, id, t, cooloff) ==
    IF id \in DOMAIN S /\ S[id] > t THEN S
    ELSE [k \in DOMAIN S \cup {id} |-> IF k = id THEN t + cooloff ELSE S[k]]
WithinLimit_Strict(reqCount, allowed) == reqCount < allowed
WithinLimit_OneMore(reqCount, allowed) == reqCount <= allowed + 1

\* Middleware, lines 41-43: the identifier is RemoteAddr, rewritten to the
\* header value in proxied mode.
ResolveId(proxied, peer, hdr) == IF proxied THEN hdr ELSE peer

LogVisit_Replace(seq, t) == <<t>>
LogVisit_Prepend(seq, t) == <<t>> \o seq

\* LogVisit, line 96: append the current time.
LogVisit(seq, t) == Append(seq, t)

\* CountVisits, line 104: the freshness test of one visit.
Fresh(visit, since) == visit > since \/ visit = since

CountVisits_SkipFirst(seq, since) ==
    IF seq = <<>> THEN <<>>
    ELSE SelectSeq(Tail(seq), LAMBDA visit : visit > since \/ visit = since)

\* CountVisits, lines 102-107: the visits kept, in their order.
CountVisits(seq, since) == SelectSeq(seq, LAMBDA visit : Fresh(visit, since))

\* isSentenced, lines 67-68.
isSentenced(S, id, t) == id \in DOMAIN S /\ S[id] > t

\* sentence, lines 73-74: the map after the overwrite.
sentence(S, id, t, cooloff) ==
    [k \in DOMAIN S \cup {id} |-> IF k = id THEN t + cooloff ELSE S[k]]

\* Middleware, line 50.
WithinLimit(reqCount, allowed) == reqCount <= allowed

Stored_Counted(jailed, logged, kept) == kept

\* Middleware, lines 45-49: CountVisits runs, and prunes, only for a request
\* that isSentenced lets through; otherwise the logged slice stays as it is.
Stored(jailed, logged, kept) == IF jailed THEN logged ELSE kept

Respond_Always(admit, noRespond) ==
    [next |-> IF admit THEN 1 ELSE 0, wrote |-> IF admit THEN 0 ELSE 1]

\* Middleware, lines 50-61: the calls of next.ServeHTTP and the writes of
\* the denial message made for one request.
Respond(admit, noRespond) ==
    [next |-> IF admit THEN 1 ELSE 0,
     wrote |-> IF ~admit /\ ~noRespond THEN 1 ELSE 0]

\* NewBasicJail, lines 126-136: no cooloff is configured.
NewBasicJail(windowSeconds, allowedRequests, noRespond) ==
    [AllowedRequests |-> allowedRequests, Window |-> windowSeconds,
     NoRespond |-> noRespond, Cooloff |-> 0]

\* NewJail, lines 115-123: NoRespond keeps its zero value.
NewJail(window, cooloff, allowedRequests) ==
    [AllowedRequests |-> allowedRequests, Window |-> window,
     NoRespond |-> FALSE, Cooloff |-> cooloff]

Jails ==
    {NewBasicJail(w, r, n) : w \in 1..MaxWindow, r \in 1..MaxAllowed, n \in BOOLEAN}
    \cup {NewJail(w, c, r) : w \in 1..MaxWindow, c \in 0..MaxCooloff, r \in 1..MaxAllowed}

(***************************************************************************)
(* The state after construction: a jail from one of the constructors,      *)
(* IsProxied() called on it or not, empty maps.                            *)
(***************************************************************************)
Init ==
    /\ \E j \in Jails :
        /\ AllowedRequests = j.AllowedRequests
        /\ Window = j.Window
        /\ NoRespond = j.NoRespond
        /\ Cooloff = j.Cooloff
    /\ isProxied \in BOOLEAN
    /\ Sentences = <<>>
    /\ visits = [k \in Ids |-> <<>>]
    /\ now = 0
    /\ logVisitMux = 0
    /\ pc = [p \in Procs |-> "idle"]
    /\ loc = [p \in Procs |-> Idle]
    /\ crashed = ""
    /\ handled = 0
    /\ recorded = [k \in Ids |-> <<>>]
    /\ admitted = [k \in Ids |-> <<>>]
    /\ cutoff = [k \in Ids |-> NoCutoff]
    /\ peersSeen = [k \in Ids |-> {}]
    /\ last = NoLast
    /\ interleaved = FALSE
    /\ drifted = FALSE

Max(x, y) == IF x >= y THEN x ELSE y

(***************************************************************************)
(* Spec: one request handled from start to end (Middleware, lines 39-62).  *)
(***************************************************************************)
Request(peer, hdr) ==
    /\ handled < MaxRequests
    /\ LET id == ResolveId(isProxied, peer, hdr)
           logged == LogVisit(visits[id], now)
           jailed == isSentenced(Sentences, id, now)
           since == now - Window
           kept == CountVisits(logged, since)
           reqCount == Len(kept)
           admit == ~jailed /\ WithinLimit(reqCount, AllowedRequests)
       IN /\ visits' = [visits EXCEPT ![id] = Stored(jailed, logged, kept)]
          /\ Sentences' = IF admit THEN Sentences
                          ELSE sentence(Sentences, id, now, Cooloff)
          /\ handled' = handled + 1
          /\ recorded' = [recorded EXCEPT ![id] = Append(@, now)]
          /\ admitted' = [admitted EXCEPT ![id] = IF admit THEN Append(@, now) ELSE @]
          /\ cutoff' = [cutoff EXCEPT ![id] = IF jailed THEN @ ELSE Max(@, since)]
          /\ peersSeen' = [peersSeen EXCEPT ![id] = @ \cup {peer}]
          /\ last' = [kind |-> "req", peer |-> peer, hdr |-> hdr, id |-> id,
                      t |-> now,
                      prev |-> IF id \in DOMAIN Sentences THEN Sentences[id] ELSE NoEntry,
                      jailed |-> jailed,
                      reqCount |-> IF jailed THEN NoEntry ELSE reqCount,
                      outcome |-> IF admit THEN "Admit" ELSE "Deny",
                      next |-> Respond(admit, NoRespond).next,
                      wrote |-> Respond(admit, NoRespond).wrote]
    /\ UNCHANGED <<config, now, logVisitMux, procs>>

\* The clock advances.
Tick ==
    /\ now < MaxTime
    /\ now' = now + 1
    /\ UNCHANGED <<config, shared, procs, history>>

Next ==
    \/ \E peer \in Peers, hdr \in Headers : Request(peer, hdr)
    \/ Tick

Spec == Init /\ [][Next]_vars

(***************************************************************************)
(* SpecConc: the handler as a goroutine, one action per access to the      *)
(* shared maps.  LogVisit holds logVisitMux from its read of the map entry *)
(* to its write; CountVisits and the two Sentences accessors take no lock. *)
(* A map write is in progress from its Begin step to its End step; a map   *)
(* read is the instant of its step.                                        *)
(***************************************************************************)
InFlight(p) == pc[p] # "idle"
Others(p) == \E q \in Procs \ {p} : InFlight(q)

Step(p) ==
    /\ crashed = ""
    /\ interleaved' = (interleaved \/ Others(p))
    /\ UNCHANGED <<config, now, crashed, drifted, peersSeen, last>>

\* Middleware lines 41-45 and LogVisit lines 95-96: resolve the identifier,
\* take the mutex, read the map entry and the clock.  Goroutines are
\* interchangeable: a new request runs in the lowest free one.
LogBegin(p, peer, hdr) ==
    /\ pc[p] = "idle"
    /\ \A q \in Procs : q < p => InFlight(q)
    /\ handled < MaxConcRequests
    /\ logVisitMux = 0
    /\ logVisitMux' = p
    /\ LET id == ResolveId(isProxied, peer, hdr) IN
        loc' = [loc EXCEPT ![p] = [Idle EXCEPT !.id = id, !.buf = visits[id], !.t = now]]
    /\ pc' = [pc EXCEPT ![p] = "logging"]
    /\ handled' = handled + 1
    /\ UNCHANGED <<Sentences, visits, recorded, admitted, cutoff>>
    /\ Step(p)

\* LogVisit lines 96-97: store the appended slice, release the mutex.
LogEnd(p) ==
    /\ pc[p] = "logging"
    /\ visits' = [visits EXCEPT ![loc[p].id] = LogVisit(loc[p].buf, loc[p].t)]
    /\ recorded' = [recorded EXCEPT ![loc[p].id] = Append(@, loc[p].t)]
    /\ logVisitMux' = 0
    /\ loc' = [loc EXCEPT ![p].buf = <<>>]
    /\ pc' = [pc EXCEPT ![p] = "check"]
    /\ UNCHANGED <<Sentences, handled, admitted, cutoff>>
    /\ Step(p)

\* Middleware line 47: isSentenced reads the Sentences map and the clock.
CheckSentence(p) ==
    /\ pc[p] = "check"
    /\ pc' = [pc EXCEPT ![p] = IF isSentenced(Sentences, loc[p].id, now)
                                THEN "sentence" ELSE "count"]
    /\ UNCHANGED <<shared, loc, handled, recorded, admitted, cutoff>>
    /\ Step(p)

\* Middleware line 48 and CountVisits line 103: compute since, read the slice.
CountBegin(p) ==
    /\ pc[p] = "count"
    /\ loc' = [loc EXCEPT ![p].since = now - Window, ![p].buf = visits[loc[p].id]]
    /\ pc' = [pc EXCEPT ![p] = "counting"]
    /\ UNCHANGED <<shared, handled, recorded, admitted, cutoff>>
    /\ Step(p)

\* CountVisits lines 104-111 and Middleware lines 50-53: store the filtered
\* slice, compare its length with the threshold, admit or go on to sentence.
CountEnd(p) ==
    /\ pc[p] = "counting"
    /\ LET id == loc[p].id
           kept == CountVisits(loc[p].buf, loc[p].since)
           admit == WithinLimit(Len(kept), AllowedRequests)
       IN /\ visits' = [visits EXCEPT ![id] = kept]
          /\ cutoff' = [cutoff EXCEPT ![id] = Max(@, loc[p].since)]
          /\ admitted' = [admitted EXCEPT ![id] =
                            IF admit THEN Append(@, loc[p].t) ELSE @]
          /\ pc' = [pc EXCEPT ![p] = IF admit THEN "idle" ELSE "sentence"]
          /\ loc' = [loc EXCEPT ![p] = IF admit THEN Idle ELSE [@ EXCEPT !.buf = <<>>]]
    /\ UNCHANGED <<Sentences, logVisitMux, handled, recorded>>
    /\ Step(p)

\* sentence line 73: read the clock; the map write of line 74 begins.
SentenceBegin(p) ==
    /\ pc[p] = "sentence"
    /\ loc' = [loc EXCEPT ![p].st = now]
    /\ pc' = [pc EXCEPT ![p] = "sentencing"]
    /\ UNCHANGED <<shared, handled, recorded, admitted, cutoff>>
    /\ Step(p)

\* sentence line 74 and Middleware lines 58-61: the entry is stored, the
\* request is denied.
SentenceEnd(p) ==
    /\ pc[p] = "sentencing"
    /\ Sentences' = sentence(Sentences, loc[p].id, loc[p].st, Cooloff)
    /\ pc' = [pc EXCEPT ![p] = "idle"]
    /\ loc' = [loc EXCEPT ![p] = Idle]
    /\ UNCHANGED <<visits, logVisitMux, handled, recorded, admitted, cutoff>>
    /\ Step(p)

\* Unsynchronised accesses to one map that overlap, one of them a write,
\* are a data race; besides the interleavings above, the runtime's map
\* code may detect the concurrent access and end the process.
VisitsRace ==
    \E p \in Procs, q \in Procs :
        p # q /\ pc[p] = "counting" /\ pc[q] \in {"logging", "counting"}

SentencesRace ==
    \E p \in Procs, q \in Procs :
        p # q /\ pc[p] = "sentencing" /\ pc[q] \in {"check", "sentencing"}

Fault(map) ==
    /\ crashed = ""
    /\ crashed' = map
    /\ UNCHANGED <<config, shared, now, pc, loc, interleaved, drifted, history>>

FaultVisits == VisitsRace /\ Fault("visits")
FaultSentences == SentencesRace /\ Fault("Sentences")

\* The clock advances, possibly in the middle of a handler.
TickConc ==
    /\ crashed = ""
    /\ now < MaxConcTime
    /\ now' = now + 1
    /\ drifted' = (drifted \/ \E p \in Procs : InFlight(p))
    /\ UNCHANGED <<config, shared, pc, loc, crashed, interleaved, history>>

NextConc ==
    \/ \E p \in Procs, peer \in Peers, hdr \in Headers : LogBegin(p, peer, hdr)
    \/ \E p \in Procs : LogEnd(p)
    \/ \E p \in Procs : CheckSentence(p)
    \/ \E p \in Procs : CountBegin(p)
    \/ \E p \in Procs : CountEnd(p)
    \/ \E p \in Procs : SentenceBegin(p)
    \/ \E p \in Procs : SentenceEnd(p)
    \/ FaultVisits
    \/ FaultSentences
    \/ TickConc

SpecConc == Init /\ [][NextConc]_vars

(***************************************************************************)
(* SpecLedger: the DefaultVisitorLog called on its own, one call after     *)
(* another, with any identifier and any cutoff (as the package's test of   *)
(* CountVisits does).  No jail takes part; its fields keep one value.      *)
(***************************************************************************)
InitLedger ==
    /\ Init
    /\ ~isProxied /\ ~NoRespond
    /\ AllowedRequests = 1 /\ Window = 1 /\ Cooloff = 0

Cutoffs == 0..(MaxTime + 1)

\* LogVisit, lines 94-98.
LogCall(id) ==
    /\ handled < MaxCalls
    /\ visits' = [visits EXCEPT ![id] = LogVisit(@, now)]
    /\ recorded' = [recorded EXCEPT ![id] = Append(@, now)]
    /\ handled' = handled + 1
    /\ last' = [kind |-> "log", id |-> id, t |-> now]
    /\ UNCHANGED <<config, Sentences, logVisitMux, now, procs, admitted, cutoff, peersSeen>>

\* CountVisits, lines 101-112: the filtered slice is stored and its length
\* returned.
CountCall(id, since) ==
    /\ handled < MaxCalls
    /\ LET kept == CountVisits(visits[id], since)
           again == last.kind = "count" /\ last.id = id
       IN /\ visits' = [visits EXCEPT ![id] = kept]
          /\ cutoff' = [cutoff EXCEPT ![id] = Max(@, since)]
          /\ last' = [kind |-> "count", id |-> id, since |-> since,
                      before |-> visits[id], result |-> Len(kept),
                      prevSince |-> IF again THEN last.since ELSE NoEntry,
                      prevResult |-> IF again THEN last.result ELSE NoEntry,
                      prevBefore |-> IF again THEN last.before ELSE <<>>]
    /\ handled' = handled + 1
    /\ UNCHANGED <<config, Sentences, logVisitMux, now, procs, recorded, admitted, peersSeen>>

NextLedger ==
    \/ \E id \in Ids : LogCall(id)
    \/ \E id \in Ids, since \in Cutoffs : CountCall(id, since)
    \/ Tick

SpecLedger == InitLedger /\ [][NextLedger]_vars

(***************************************************************************)
(* Vocabulary of the properties.                                           *)
(***************************************************************************)

\* The number of visits of id, pruned or not, in the window [t - Window, t].
InWindow(seq, t) == {i \in DOMAIN seq : seq[i] >= t - Window /\ seq[i] <= t}
TrueCount(id, t) == Cardinality(InWindow(recorded[id], t))

\* The number of occurrences of t in seq.
Occ(seq, t) == Cardinality({i \in DOMAIN seq : seq[i] = t})

Handled == last.kind = "req"

\* Every visit of id so far lies in one window, the one ending at the latest.
OneWindow(id) ==
    recorded[id] # <<>> /\ recorded[id][1] >= recorded[id][Len(recorded[id])] - Window

(***************************************************************************)
(* C1.  An identifier that starts with no sentence and no visits and sends *)
(* its requests inside one window: the first AllowedRequests requests are  *)
(* all admitted and leave no sentence; request AllowedRequests + 1 is      *)
(* denied and sets the expiry to its own time plus Cooloff.  A request     *)
(* from an identifier that had no sentence entry is admitted exactly when  *)
(* the visits in its window, itself included, number at most               *)
(* AllowedRequests.                                                        *)
(***************************************************************************)
C1_AdmitUpToThreshold ==
    /\ \A k \in Ids :
        LET n == Len(recorded[k]) IN
        OneWindow(k) =>
            /\ n <= AllowedRequests =>
                admitted[k] = recorded[k] /\ k \notin DOMAIN Sentences
            /\ n = AllowedRequests + 1 =>
                /\ admitted[k] = SubSeq(recorded[k], 1, AllowedRequests)
                /\ k \in DOMAIN Sentences
                /\ Sentences[k] = recorded[k][n] + Cooloff
    /\ (Handled /\ last.prev = NoEntry) =>
        (last.outcome = "Admit" <=> TrueCount(last.id, last.t) <= AllowedRequests)

C1_Witness ==
    /\ Handled /\ AllowedRequests > 1 /\ last.outcome = "Deny"
    /\ last.prev = NoEntry
    /\ OneWindow(last.id)
    /\ Len(recorded[last.id]) = AllowedRequests + 1
    /\ Len(admitted[last.id]) = AllowedRequests

(***************************************************************************)
(* C2.  A request from an identifier whose stored expiry is strictly after *)
(* the request's time is denied, whatever its window count, and the stored *)
(* expiry becomes the request's time plus Cooloff.                         *)
(***************************************************************************)
C2_SentencedDeniedAndExtended ==
    (Handled /\ last.prev # NoEntry /\ last.prev > last.t) =>
        /\ last.outcome = "Deny"
        /\ Sentences[last.id] = last.t + Cooloff

\* Denied under sentence although the window count is back under the
\* threshold, the new expiry differing from the one it replaced.
C2_Witness ==
    /\ Handled /\ last.prev # NoEntry /\ last.prev > last.t
    /\ TrueCount(last.id, last.t) <= AllowedRequests
    /\ last.outcome = "Deny"
    /\ Sentences[last.id] > last.prev

(***************************************************************************)
(* C3.  A request that arrives when the stored expiry is at or before the  *)
(* current time is admitted if the visits in its window, denied ones and   *)
(* itself included, number at most AllowedRequests.                        *)
(***************************************************************************)
C3_AdmittedAfterExpiry ==
    (/\ Handled /\ last.prev # NoEntry /\ last.prev <= last.t
     /\ TrueCount(last.id, last.t) <= AllowedRequests) =>
        last.outcome = "Admit"

\* The first instant at which the sentence no longer holds: expiry = now.
C3_Witness ==
    /\ Handled /\ Cooloff > 0
    /\ last.prev = last.t
    /\ last.outcome = "Admit"
    /\ Len(recorded[last.id]) > Len(admitted[last.id])

(***************************************************************************)
(* C4.  With Cooloff = 0 (NewBasicJail) no request ever finds its          *)
(* identifier sentenced, a request is admitted exactly when its window     *)
(* count is at most AllowedRequests, and a request that is alone in its    *)
(* window is admitted after a denial.                                      *)
(***************************************************************************)
C4_NoCooloffNoSentence ==
    (Cooloff = 0 /\ Handled) =>
        /\ ~last.jailed
        /\ last.outcome = "Admit" <=> TrueCount(last.id, last.t) <= AllowedRequests
        /\ (last.prev # NoEntry /\ TrueCount(last.id, last.t) = 1) =>
                last.outcome = "Admit"

C4_Witness ==
    /\ Cooloff = 0 /\ Handled
    /\ last.prev # NoEntry
    /\ TrueCount(last.id, last.t) = 1
    /\ last.outcome = "Admit"

(***************************************************************************)
(* C5.  Requests handled one at a time: no window [t - Window, t] holds    *)
(* more than AllowedRequests admitted requests of one identifier.          *)
(***************************************************************************)
AdmittedIn(id, t) == Cardinality(InWindow(admitted[id], t))

OverAdmitted ==
    \E k \in Ids :
        /\ Len(admitted[k]) > AllowedRequests
        /\ \E t \in 0..(MaxTime + MaxWindow) : AdmittedIn(k, t) > AllowedRequests

C6_CapOnlyWithoutInterleaving ==
    (interleaved \/ drifted) \/ ~OverAdmitted

C6_Witness ==
    /\ interleaved /\ ~drifted /\ crashed = ""
    /\ \A p \in Procs : pc[p] = "idle"
    /\ handled = AllowedRequests + 1
    /\ \E k \in Ids :
        /\ Len(admitted[k]) = handled
        /\ AdmittedIn(k, now) > AllowedRequests

(***************************************************************************)
(* C7.  The visit ledger is thread-safe: whatever the interleaving of      *)
(* LogVisit and CountVisits, every recorded visit whose time is at or      *)
(* after every cutoff used so far for its identifier is still stored.      *)
(***************************************************************************)
C7_NoVisitLost ==
    \A k \in Ids : \A t \in 0..MaxTime :
        t >= cutoff[k] => Occ(visits[k], t) >= Occ(recorded[k], t)

(***************************************************************************)
(* C8.  Accesses to the Sentences map exclude one another: no two          *)
(* overwrites are in progress together, and the runtime never finds the    *)
(* map read or written while another request writes it.                    *)
(***************************************************************************)
C8_SentencesExclusive ==
    /\ \A p \in Procs, q \in Procs :
        p # q => ~(pc[p] = "sentencing" /\ pc[q] = "sentencing")
    /\ crashed # "Sentences"

(***************************************************************************)
(* C9.  In proxied mode a request is filed under its header value: its     *)
(* visit and its sentence are those of that value, whatever the peer, and  *)
(* nothing is ever filed under an address that is no header value.  In     *)
(* non-proxied mode it is filed under its peer address, so an identifier   *)
(* collects the requests of that one peer only, whatever their headers.    *)
(***************************************************************************)
C9_IdentityResolution ==
    /\ Handled =>
        LET k == IF isProxied THEN last.hdr ELSE last.peer IN
        /\ last.id = k
        /\ last.peer \in peersSeen[k]
        /\ Occ(recorded[k], last.t) >= 1
        /\ last.outcome = "Deny" => k \in DOMAIN Sentences
    /\ isProxied =>
        \A k \in Ids \ Headers :
            recorded[k] = <<>> /\ visits[k] = <<>> /\ k \notin DOMAIN Sentences
    /\ ~isProxied =>
        \A k \in Ids : peersSeen[k] \subseteq {k}

\* Proxied: two peers send the same header value, and the second is denied
\* on the strength of the first one's visit.
C9_Witness ==
    /\ isProxied /\ Handled /\ AllowedRequests = 1
    /\ last.hdr # ""
    /\ peersSeen[last.hdr] = Peers
    /\ Len(recorded[last.hdr]) = 2
    /\ last.outcome = "Deny"

(***************************************************************************)
(* C10.  Every request handled ends admitted or denied, one of the two:    *)
(* the requests admitted and the requests denied add up to the requests    *)
(* that arrived.  A proxied request without the header is filed under the  *)
(* empty identifier, which is one client with one history and one sentence *)
(* for all such requests.                                                  *)
(***************************************************************************)
RECURSIVE Total(_, _)
Total(f, S) ==
    IF S = {} THEN 0
    ELSE LET k == CHOOSE x \in S : TRUE IN Len(f[k]) + Total(f, S \ {k})

Counted == last.kind = "count"

\* The entries of seq at or after c, taken from the front to the back.
RECURSIVE AtOrAfter(_, _)
AtOrAfter(seq, c) ==
    IF seq = <<>> THEN <<>>
    ELSE IF Head(seq) >= c THEN <<Head(seq)>> \o AtOrAfter(Tail(seq), c)
    ELSE AtOrAfter(Tail(seq), c)

C11_CountAndPrune ==
    Counted =>
        /\ last.result = Cardinality({i \in DOMAIN last.before : last.before[i] >= last.since})
        /\ visits[last.id] = AtOrAfter(last.before, last.since)
        /\ \A i \in DOMAIN visits[last.id] : visits[last.id][i] >= last.since
        /\ (\A i \in DOMAIN last.before : last.before[i] < last.since) =>
                last.result = 0 /\ visits[last.id] = <<>>
        /\ last.before = <<>> => last.result = 0

\* A visit exactly at the cutoff is counted while an older one is dropped.
C11_Witness ==
    /\ Counted
    /\ \E i \in DOMAIN last.before : last.before[i] = last.since
    /\ \E i \in DOMAIN last.before : last.before[i] < last.since
    /\ last.result >= 1
    /\ last.result < Len(last.before)

(***************************************************************************)
(* C12.  As long as every cutoff used for an identifier is at or before    *)
(* every visit recorded for it, CountVisits returns the number of LogVisit *)
(* calls made for it so far: such a count removes nothing.                 *)
(***************************************************************************)
C12_CountAllRecorded ==
    (Counted /\ \A i \in DOMAIN recorded[last.id] : cutoff[last.id] <= recorded[last.id][i]) =>
        /\ last.result = Len(recorded[last.id])
        /\ visits[last.id] = recorded[last.id]

\* Two visits at different times, a count before this one, both visits
\* still counted.
C12_Witness ==
    /\ Counted /\ handled = MaxCalls
    /\ Len(recorded[last.id]) = 2
    /\ recorded[last.id][1] < recorded[last.id][2]
    /\ \A k \in Ids \ {last.id} : recorded[k] = <<>> /\ cutoff[k] = NoCutoff
    /\ cutoff[last.id] = recorded[last.id][1]
    /\ last.result = 2

(***************************************************************************)
(* C15.  Two CountVisits calls for one identifier with no LogVisit between *)
(* them: if the second cutoff is at or before the first, the second call   *)
(* returns what the first returned (what the first pruned is not found     *)
(* again) and, the cutoffs being equal, leaves the same stored sequence.   *)
(***************************************************************************)
C15_RepeatedCount ==
    (Counted /\ last.prevSince # NoEntry /\ last.since <= last.prevSince) =>
        /\ last.result = last.prevResult
        /\ visits[last.id] = last.before

\* The order of the cutoffs matters: the second call, asked first, would
\* have returned more.
C15_Witness ==
    /\ Counted /\ last.prevSince # NoEntry /\ last.since < last.prevSince
    /\ last.result >= 1
    /\ Cardinality({i \in DOMAIN last.prevBefore : last.prevBefore[i] >= last.since})
            > last.result

(***************************************************************************)
(* C13.  An admitted request calls the next handler once, writes no        *)
(* denial message and leaves the Sentences map as it was.  A denied        *)
(* request never calls the next handler, and the denial message is written *)
(* (once) exactly when NoRespond is false.                                 *)
(***************************************************************************)
Arrives == handled' # handled

C13_OutcomeEffects ==
    /\ [](Handled =>
            /\ last.outcome = "Admit" => last.next = 1 /\ last.wrote = 0
            /\ last.outcome = "Deny" =>
                /\ last.next = 0
                /\ last.wrote = IF NoRespond THEN 0 ELSE 1)
    /\ [][(Arrives /\ last'.outcome = "Admit") => Sentences' = Sentences]_vars

\* A silent denial.
C13_Witness ==
    /\ Handled /\ NoRespond
    /\ last.outcome = "Deny" /\ last.next = 0 /\ last.wrote = 0

(***************************************************************************)
(* C14.  Every request leaves one visit with its own time in its           *)
(* identifier's ledger, sentenced or not, admitted or denied, and the      *)
(* count that decides it includes that visit and the visits of denied      *)
(* requests: once the sentence has expired, a request is denied again      *)
(* whenever the visits in its window, denied ones included, exceed         *)
(* AllowedRequests.                                                        *)
(***************************************************************************)
C14_EveryRequestLogged ==
    Handled =>
        LET k == last.id IN
        /\ visits[k] # <<>>
        /\ visits[k][Len(visits[k])] = last.t
        /\ Occ(visits[k], last.t) = Occ(recorded[k], last.t)
        /\ ~last.jailed => last.reqCount = TrueCount(k, last.t)
        /\ (last.prev # NoEntry /\ last.prev <= last.t
                /\ TrueCount(k, last.t) > AllowedRequests) =>
            last.outcome = "Deny"

\* Denied after the sentence expired although the admitted requests in the
\* window are within the threshold: the denied ones make the difference.
C14_Witness ==
    /\ Handled /\ last.prev # NoEntry /\ last.prev <= last.t
    /\ ~last.jailed
    /\ last.outcome = "Deny"
    /\ AdmittedIn(last.id, last.t) <= AllowedRequests
    /\ TrueCount(last.id, last.t) > AllowedRequests

(***************************************************************************)
(* C16.  An identifier that has a sentence entry keeps one in every later  *)
(* state; a request that is admitted leaves the map as it was; an entry    *)
(* whose expiry is at or before the current time (equal included) is       *)
(* reported as not sentenced, and stays stored.                            *)
(***************************************************************************)
C16_EntriesStay ==
    /\ [][DOMAIN Sentences \subseteq DOMAIN Sentences']_vars
    /\ [](Handled /\ last.prev # NoEntry /\ last.prev <= last.t =>
            /\ ~last.jailed
            /\ last.id \in DOMAIN Sentences
            /\ last.outcome = "Admit" => Sentences[last.id] = last.prev)

\* A stale entry, expiry = the request's time, survives an admitted request.
C16_Witness ==
    /\ Handled /\ Cooloff > 0
    /\ last.prev = last.t /\ ~last.jailed
    /\ last.outcome = "Admit"
    /\ Sentences[last.id] = last.prev
    /\ Sentences[last.id] <= now

(***************************************************************************)
(* C18.  A request of identifier A leaves the stored visits and the        *)
(* sentence entry of every other identifier as they were, and its outcome  *)
(* is decided by A's own sentence entry and A's own visits alone.          *)
(***************************************************************************)
EntryOf(S, k) == IF k \in DOMAIN S THEN S[k] ELSE NoEntry

C18_Isolation ==
    /\ [][Arrives =>
            \A b \in Ids \ {last'.id} :
                /\ visits'[b] = visits[b]
                /\ EntryOf(Sentences', b) = EntryOf(Sentences, b)]_vars
    /\ [](Handled =>
            (last.outcome = "Admit" <=>
                /\ ~(last.prev # NoEntry /\ last.prev > last.t)
                /\ TrueCount(last.id, last.t) <= AllowedRequests))

\* A is denied while another identifier, with visits of its own in the
\* same window, has no sentence.
C18_Witness ==
    /\ Handled /\ last.outcome = "Deny"
    /\ \E b \in Ids \ {last.id} :
        /\ visits[b] # <<>>
        /\ b \notin DOMAIN Sentences
        /\ admitted[b] = recorded[b]

(***************************************************************************)
(* C19.  Requests handled one at a time: the stored expiry of an           *)
(* identifier never decreases, and an overwrite stores the larger of the   *)
(* old expiry and the request's time plus Cooloff.                         *)
(***************************************************************************)
C19_ExpiryMonotone ==
    /\ [][\A k \in DOMAIN Sentences :
            k \in DOMAIN Sentences' /\ Sentences'[k] >= Sentences[k]]_vars
    /\ [](Handled /\ last.outcome = "Deny" /\ last.prev # NoEntry =>
            Sentences[last.id] = Max(last.prev, last.t + Cooloff))

\* An overwrite that moves the expiry forward.
C19_Witness ==
    /\ Handled /\ last.outcome = "Deny" /\ last.prev # NoEntry
    /\ Sentences[last.id] > last.prev

(***************************************************************************)
(* C20.  A request denied because of an active sentence does not go        *)
(* through CountVisits: its identifier's stored sequence gains the one     *)
(* visit and loses none, so during a rolling sentence the sequence grows   *)
(* by one per request and can hold visits older than now - Window.         *)
(***************************************************************************)
C20_SentencedNotPruned ==
    /\ [][(Arrives /\ last'.jailed) =>
            visits'[last'.id] = Append(visits[last'.id], now)]_vars
    /\ [](Handled /\ last.jailed => last.reqCount = NoEntry)

\* Under sentence the ledger holds a visit from before the window.
C20_Witness ==
    /\ Handled /\ last.jailed
    /\ \E i \in DOMAIN visits[last.id] : visits[last.id][i] < last.t - Window
    /\ visits[last.id] = recorded[last.id]

(***************************************************************************)
(* C17.  Whatever the interleaving of the handlers, and the clock never    *)
(* running backwards, each identifier's stored visits are in               *)
(* non-decreasing order of time.                                           *)
(***************************************************************************)
C17_VisitsSorted ==
    \A k \in Ids : \A i \in 1..(Len(visits[k]) - 1) : visits[k][i] <= visits[k][i + 1]

C17_Witness ==
    /\ interleaved
    /\ \E k \in Ids : Len(visits[k]) >= 2 /\ visits[k][1] < visits[k][2]

====
